---- MODULE Spec2Model ----
(***************************************************************************)
(* A model of the struct-pad crate (src/lib.rs): the five padding types,   *)
(* their inner single-variant enums, the pointer-width alias, the sealed   *)
(* Pad trait, and the value operations (VALUE, default, clone, copy, eq,   *)
(* cmp, partial_cmp, hash), together with the layout the attributes        *)
(* #[repr(uN)] and #[repr(transparent)] give them on a build target.       *)
(***************************************************************************)
EXTENDS Integers, Sequences, FiniteSets, TLC

VARIABLES
    target,       \* the build target: pointer width and the largest integer alignment
    vals,         \* the padding values that exist, one per slot (or NoValue)
    hasher,       \* the bytes written so far to the Hasher in use
    sealedImpls,  \* the types that implement private::Sealed
    padImpls,     \* the types that implement Pad
    last          \* the last operation and what it returned

vars == <<target, vals, hasher, sealedImpls, padImpls, last>>

----------------------------------------------------------------------------
(* Bounds of the model. *)

MaxSlots == 2
MaxHashLen == 1
MaxField == 1

Slots == 1..MaxSlots
HashBytes == 0..1
FieldValues == 0..MaxField

----------------------------------------------------------------------------
(* Build targets. *)

\* The values of target_pointer_width the crate has a cfg for.
PointerWidths == {16, 32, 64}

\* A pointer width the crate has no cfg for.
UnrecognisedWidths == {128}

\* A target fixes the pointer width and the largest alignment any integer
\* type has on it (align_of::<uN>() is min(size_of::<uN>(), maxAlign)):
\* 16-bit targets align to 1 or 2 bytes, 32-bit targets align u64 to 4 or 8.
Targets ==
    { [ptr |-> 16, maxAlign |-> 1], [ptr |-> 16, maxAlign |-> 2],
      [ptr |-> 32, maxAlign |-> 4], [ptr |-> 32, maxAlign |-> 8],
      [ptr |-> 64, maxAlign |-> 8] }
    \cup { [ptr |-> w, maxAlign |-> 16] : w \in UnrecognisedWidths }

Min(a, b) == IF a <= b THEN a ELSE b
Max(a, b) == IF a >= b THEN a ELSE b
RoundUp(n, a) == ((n + a - 1) \div a) * a

IntTypes == {"u8", "u16", "u32", "u64", "usize"}

\* The width in bits of a fixed-width unsigned integer type.
FixedBits(int) ==
    CASE int = "u8" -> 8
      [] int = "u16" -> 16
      [] int = "u32" -> 32
      [] int = "u64" -> 64

\* usize is as wide as a pointer of the target.
IntBits(int, t) == IF int = "usize" THEN t.ptr ELSE FixedBits(int)

IntSize(int, t) == IntBits(int, t) \div 8
IntAlign(int, t) == Min(IntSize(int, t), t.maxAlign)

----------------------------------------------------------------------------
(* The types of the crate. *)

PadTypes == {"PadU0", "PadU8", "PadU16", "PadU32", "PadU64"}

StructField_copied(ty) ==
    CASE ty = "PadU0" -> "()"
      [] ty = "PadU8" -> "PadU8Inner"
      [] ty = "PadU16" -> "PadU16Inner"
      [] ty = "PadU32" -> "PadU16Inner"
      [] ty = "PadU64" -> "PadU64Inner"

\* The type of the single field each padding struct wraps.
StructField(ty) ==
    CASE ty = "PadU0" -> "()"
      [] ty = "PadU8" -> "PadU8Inner"
      [] ty = "PadU16" -> "PadU16Inner"
      [] ty = "PadU32" -> "PadU32Inner"
      [] ty = "PadU64" -> "PadU64Inner"

EnumRepr_narrow(inner) ==
    CASE inner = "PadU8Inner" -> "u8"
      [] inner = "PadU16Inner" -> "u8"
      [] inner = "PadU32Inner" -> "u32"
      [] inner = "PadU64Inner" -> "u64"

\* #[repr(uN)] of each inner enum.
EnumRepr(inner) ==
    CASE inner = "PadU8Inner" -> "u8"
      [] inner = "PadU16Inner" -> "u16"
      [] inner = "PadU32Inner" -> "u32"
      [] inner = "PadU64Inner" -> "u64"

EnumVariants_full(inner) ==
    CASE inner = "PadU8Inner" ->
             {[name |-> IF d = 0 THEN "VALUE" ELSE "OTHER", discr |-> d] : d \in 0..255}
      [] inner = "PadU16Inner" -> {[name |-> "VALUE", discr |-> 0]}
      [] inner = "PadU32Inner" -> {[name |-> "VALUE", discr |-> 0]}
      [] inner = "PadU64Inner" -> {[name |-> "VALUE", discr |-> 0]}

EnumVariants_one(inner) ==
    CASE inner = "PadU8Inner" -> {[name |-> "VALUE", discr |-> 0]}
      [] inner = "PadU16Inner" -> {[name |-> "VALUE", discr |-> 0]}
      [] inner = "PadU32Inner" -> {[name |-> "VALUE", discr |-> 0]}
      [] inner = "PadU64Inner" -> {[name |-> "VALUE", discr |-> 1]}

\* The variants of each inner enum, as name and discriminant.
EnumVariants(inner) ==
    CASE inner = "PadU8Inner" -> {[name |-> "VALUE", discr |-> 0]}
      [] inner = "PadU16Inner" -> {[name |-> "VALUE", discr |-> 0]}
      [] inner = "PadU32Inner" -> {[name |-> "VALUE", discr |-> 0]}
      [] inner = "PadU64Inner" -> {[name |-> "VALUE", discr |-> 0]}

\* What the wrapped field is: the unit type or a fieldless enum.
FieldKind(ty) == IF StructField(ty) = "()" THEN "unit" ELSE "enum"

\* The discriminant of a variant of an inner enum.
Discr(inner, name) == (CHOOSE v \in EnumVariants(inner) : v.name = name).discr

----------------------------------------------------------------------------
(* Layout. *)

\* size_of::<T>(): a struct of one field has its field's size; a
\* #[repr(uN)] enum has the size of uN; () has size 0.
SizeOf(ty, t) ==
    IF FieldKind(ty) = "unit" THEN 0
    ELSE IntSize(EnumRepr(StructField(ty)), t)

\* align_of::<T>(): likewise; () has alignment 1.
AlignOf(ty, t) ==
    IF FieldKind(ty) = "unit" THEN 1
    ELSE IntAlign(EnumRepr(StructField(ty)), t)

\* The little-endian bytes of d in n bytes of memory.
RECURSIVE ToBytes(_, _)
ToBytes(d, n) == IF n = 0 THEN <<>> ELSE <<d % 256>> \o ToBytes(d \div 256, n - 1)

\* The unsigned integer a sequence of little-endian bytes holds.
RECURSIVE FromBytes(_)
FromBytes(bs) == IF bs = <<>> THEN 0 ELSE bs[1] + 256 * FromBytes(Tail(bs))

\* The bytes a padding type has in memory; they do not depend on the target.
ByteLen(ty) ==
    IF FieldKind(ty) = "unit" THEN 0
    ELSE FixedBits(EnumRepr(StructField(ty))) \div 8

\* A value of a padding type, as its type and its bytes in memory.
MkVal(ty, d) == [ty |-> ty, bytes |-> ToBytes(d, ByteLen(ty))]

NoValue == [ty |-> "none", bytes |-> <<>>]

----------------------------------------------------------------------------
(* The value operations of the padding types. *)

\* Every value the type admits: () has one value, a fieldless enum has one
\* value per variant.
Inhabitants(ty) ==
    IF FieldKind(ty) = "unit" THEN {[ty |-> ty, bytes |-> <<>>]}
    ELSE {MkVal(ty, v.discr) : v \in EnumVariants(StructField(ty))}

\* <T as Pad>::VALUE: Self(()) for PadU0, Self(PadUnInner::VALUE) otherwise.
PadVALUE(ty) ==
    IF FieldKind(ty) = "unit" THEN [ty |-> ty, bytes |-> <<>>]
    ELSE MkVal(ty, Discr(StructField(ty), "VALUE"))

PadDefault_wrong(ty) == MkVal(ty, 1)

\* <T as Default>::default() returns Self::VALUE.
PadDefault(ty) == PadVALUE(ty)

\* <T as Clone>::clone(&self) returns Self::VALUE.
PadClone(v) == PadVALUE(v.ty)

\* T: Copy, a copy is the same bytes.
PadCopy(v) == v

\* <T as PartialEq>::eq(&self, _) returns true.
PadEq(a, b) == TRUE

\* PartialEq::ne is the provided method, !self.eq(other).
PadNe(a, b) == ~PadEq(a, b)

PadCmp_less(a, b) == "Less"

\* <T as Ord>::cmp(&self, _) returns Ordering::Equal.
PadCmp(a, b) == "Equal"

\* <T as PartialOrd>::partial_cmp(&self, _) returns Some(Ordering::Equal).
PadPartialCmp(a, b) == [some |-> TRUE, ord |-> "Equal"]

PadHash_bytes(v, h) == h \o v.bytes

\* <T as Hash>::hash(&self, _: &mut H) has an empty body.
PadHash(v, h) == h

\* `VALUE.0 as uN`: the discriminant, truncated to the width of uN. The
\* discriminants of the model are far below 2^31, so widths of 32 and 64
\* bits truncate nothing.
AsInt(v, bits) ==
    LET d == FromBytes(v.bytes)
    IN  IF bits >= 31 THEN d ELSE d % (2 ^ bits)

----------------------------------------------------------------------------
(* The pointer-width alias. *)

AliasDefs_swapped ==
    { [cfg |-> 16, ty |-> "PadU16"],
      [cfg |-> 32, ty |-> "PadU64"],
      [cfg |-> 64, ty |-> "PadU64"] }

\* The three cfg-gated definitions of PadUsize.
AliasDefs ==
    { [cfg |-> 16, ty |-> "PadU16"],
      [cfg |-> 32, ty |-> "PadU32"],
      [cfg |-> 64, ty |-> "PadU64"] }

\* The definitions of PadUsize whose cfg holds on the target.
ActiveAliases(t) == {d \in AliasDefs : d.cfg = t.ptr}

TypeNames == PadTypes \cup {"PadUsize"}

\* Whether code naming the type builds on the target.
Builds(name, t) ==
    name \in PadTypes \/ (name = "PadUsize" /\ Cardinality(ActiveAliases(t)) = 1)

\* The padding type a name stands for on the target.
Resolve(name, t) ==
    IF name = "PadUsize" THEN (CHOOSE d \in ActiveAliases(t) : TRUE).ty ELSE name

----------------------------------------------------------------------------
(* Option<T>. *)

\* The bit patterns that are values of the type's field.
ValidPatterns(ty) == {v.discr : v \in EnumVariants(StructField(ty))}

\* A niche is a bit pattern of the type's width that is no value of it.
\* Every width is at least 8 bits, so looking below 256 is enough.
Niches(ty) ==
    IF FieldKind(ty) = "unit" THEN {}
    ELSE {p \in 0..Min(Cardinality(ValidPatterns(ty)), 255) : p \notin ValidPatterns(ty)}

\* size_of::<Option<T>>(): None takes a niche of T when T has one, and a
\* tag byte otherwise.
OptionSize(ty, t) ==
    IF Niches(ty) # {} THEN SizeOf(ty, t)
    ELSE RoundUp(SizeOf(ty, t) + 1, AlignOf(ty, t))

\* align_of::<Option<T>>().
OptionAlign(ty, t) == AlignOf(ty, t)
----------------------------------------------------------------------------
(* The record of the crate-level example. *)

ExampleFields_nocfg(t) ==
    << [name |-> "field1", ty |-> "u64"],
       [name |-> "field2", ty |-> "u8"],
       [name |-> "pad1", ty |-> "PadU8"],
       [name |-> "pad2", ty |-> "PadU16"],
       [name |-> "pad3", ty |-> IF t.ptr = 64 THEN "PadU32" ELSE "PadU0"] >>

\* The fields of struct Example on the target, in declaration order, after
\* the cfg attributes on pad2 and pad3 are applied.
ExampleFields(t) ==
    << [name |-> "field1", ty |-> "u64"],
       [name |-> "field2", ty |-> "u8"],
       [name |-> "pad1", ty |-> "PadU8"],
       [name |-> "pad2", ty |-> IF t.ptr = 16 THEN "PadU0" ELSE "PadU16"],
       [name |-> "pad3", ty |-> IF t.ptr = 64 THEN "PadU32" ELSE "PadU0"] >>

FieldSize(fty, t) == IF fty \in IntTypes THEN IntSize(fty, t) ELSE SizeOf(fty, t)
FieldAlign(fty, t) == IF fty \in IntTypes THEN IntAlign(fty, t) ELSE AlignOf(fty, t)

\* The sum of the sizes of the fields.
RECURSIVE DeclaredSum(_, _)
DeclaredSum(fields, t) ==
    IF fields = <<>> THEN 0
    ELSE FieldSize(Head(fields).ty, t) + DeclaredSum(Tail(fields), t)

\* The alignment of a record: the largest alignment of a field.
RECURSIVE StructAlign(_, _)
StructAlign(fields, t) ==
    IF fields = <<>> THEN 1
    ELSE Max(FieldAlign(Head(fields).ty, t), StructAlign(Tail(fields), t))

\* The end of the last field when the fields are laid out in declaration
\* order from offset `at`, each at the next offset its alignment allows.
RECURSIVE EndOffset(_, _, _)
EndOffset(fields, at, t) ==
    IF fields = <<>> THEN at
    ELSE EndOffset(Tail(fields),
                   RoundUp(at, FieldAlign(Head(fields).ty, t)) + FieldSize(Head(fields).ty, t),
                   t)

\* The size of the record laid out in declaration order: the end of the
\* last field, rounded up to the record's alignment.
StructSize(fields, t) == RoundUp(EndOffset(fields, 0, t), StructAlign(fields, t))

\* Example::new(field1, field2): every padding field is Pad::VALUE of its type.
ExampleNewValue(f1, f2, t) ==
    [ field1 |-> f1,
      field2 |-> f2,
      pad1 |-> PadVALUE(ExampleFields(t)[3].ty),
      pad2 |-> PadVALUE(ExampleFields(t)[4].ty),
      pad3 |-> PadVALUE(ExampleFields(t)[5].ty) ]

----------------------------------------------------------------------------
(* The sealed trait. *)

PrivateModuleIsPub_pub == TRUE

\* Whether the module `private` is declared pub, so that code outside the
\* crate can name private::Sealed.
PrivateModuleIsPub == FALSE

\* The supertraits of Pad.
PadSupertraits == {"Copy", "Sealed"}

\* The types the crate implements private::Sealed for.
CrateSealedImpls == {"PadU0", "PadU8", "PadU16", "PadU32", "PadU64"}

\* The types the crate implements Pad for.
CratePadImpls == {"PadU0", "PadU8", "PadU16", "PadU32", "PadU64"}

\* The types the crate implements Copy for.
CrateCopyImpls == {"PadU0", "PadU8", "PadU16", "PadU32", "PadU64"}

\* Types of a downstream crate, which its author makes Copy.
ExternalTypes == {"ExtPad"}

\* Whether `impl Pad for ty` builds given the implementers of Sealed:
\* the type has to satisfy every supertrait.
PadImplBuilds(ty, sealed) ==
    /\ "Copy" \in PadSupertraits => ty \in CrateCopyImpls \cup ExternalTypes
    /\ "Sealed" \in PadSupertraits => ty \in sealed
----------------------------------------------------------------------------
(* The state machine. *)

Init ==
    /\ target \in Targets
    /\ vals = [s \in Slots |-> NoValue]
    /\ hasher = <<>>
    /\ sealedImpls = CrateSealedImpls
    /\ padImpls = CratePadImpls
    /\ last = [op |-> "none"]

\* let vals[s] = <name as Pad>::VALUE;
Value(s, name) ==
    /\ Builds(name, target)
    /\ vals' = [vals EXCEPT ![s] = PadVALUE(Resolve(name, target))]
    /\ last' = [op |-> "VALUE"]
    /\ UNCHANGED <<target, hasher, sealedImpls, padImpls>>

\* let vals[s] = <name>::default();
Default(s, name) ==
    /\ Builds(name, target)
    /\ vals' = [vals EXCEPT ![s] = PadDefault(Resolve(name, target))]
    /\ last' = [op |-> "default"]
    /\ UNCHANGED <<target, hasher, sealedImpls, padImpls>>

\* let vals[d] = vals[s].clone();
Clone(s, d) ==
    /\ vals[s] # NoValue
    /\ vals' = [vals EXCEPT ![d] = PadClone(vals[s])]
    /\ last' = [op |-> "clone"]
    /\ UNCHANGED <<target, hasher, sealedImpls, padImpls>>

\* let vals[d] = vals[s];
Copy(s, d) ==
    /\ vals[s] # NoValue
    /\ vals' = [vals EXCEPT ![d] = PadCopy(vals[s])]
    /\ last' = [op |-> "copy"]
    /\ UNCHANGED <<target, hasher, sealedImpls, padImpls>>

\* vals[a] == vals[b], vals[a] != vals[b], vals[a].cmp(&vals[b]) and
\* vals[a].partial_cmp(&vals[b]), for two values of one type.
Compare(a, b) ==
    /\ vals[a] # NoValue
    /\ vals[a].ty = vals[b].ty
    /\ last' = [ op |-> "compare",
                 eq |-> PadEq(vals[a], vals[b]),
                 ne |-> PadNe(vals[a], vals[b]),
                 cmp |-> PadCmp(vals[a], vals[b]),
                 pcmp |-> PadPartialCmp(vals[a], vals[b]) ]
    /\ UNCHANGED <<target, vals, hasher, sealedImpls, padImpls>>

\* vals[s].hash(&mut hasher);
HashPad(s) ==
    /\ vals[s] # NoValue
    /\ hasher' = PadHash(vals[s], hasher)
    /\ last' = [op |-> "hash", before |-> hasher]
    /\ UNCHANGED <<target, vals, sealedImpls, padImpls>>

\* hasher.write_u8(b): the caller hashes some other field.
WriteU8(b) ==
    /\ Len(hasher) < MaxHashLen
    /\ hasher' = Append(hasher, b)
    /\ last' = [op |-> "write_u8"]
    /\ UNCHANGED <<target, vals, sealedImpls, padImpls>>

\* size_of and align_of of the type and of Option of it.
Measure(name) ==
    /\ Builds(name, target)
    /\ LET ty == Resolve(name, target)
       IN  last' = [ op |-> "layout", name |-> name, ty |-> ty,
                     size |-> SizeOf(ty, target),
                     align |-> AlignOf(ty, target),
                     optSize |-> OptionSize(ty, target),
                     optAlign |-> OptionAlign(ty, target) ]
    /\ UNCHANGED <<target, vals, hasher, sealedImpls, padImpls>>

\* Example::new(f1, f2)
ExampleNew(f1, f2) ==
    /\ last' = [op |-> "example_new", example |-> ExampleNewValue(f1, f2, target)]
    /\ UNCHANGED <<target, vals, hasher, sealedImpls, padImpls>>

\* A downstream crate writes `impl struct_pad::private::Sealed for ty {}`:
\* it builds only if the path can be named from outside the crate.
ExternalImplSealed(ty) ==
    /\ sealedImpls' = IF PrivateModuleIsPub THEN sealedImpls \cup {ty} ELSE sealedImpls
    /\ last' = [op |-> "extern_impl_sealed", ty |-> ty, built |-> PrivateModuleIsPub]
    /\ UNCHANGED <<target, vals, hasher, padImpls>>

\* A downstream crate writes `impl Pad for ty { const VALUE: Self = ..; }`.
ExternalImplPad(ty) ==
    /\ padImpls' = IF PadImplBuilds(ty, sealedImpls) THEN padImpls \cup {ty} ELSE padImpls
    /\ last' = [op |-> "extern_impl_pad", ty |-> ty, built |-> PadImplBuilds(ty, sealedImpls)]
    /\ UNCHANGED <<target, vals, hasher, sealedImpls>>

Next ==
    \/ \E s \in Slots, name \in TypeNames : Value(s, name)
    \/ \E s \in Slots, name \in TypeNames : Default(s, name)
    \/ \E s \in Slots, d \in Slots : Clone(s, d)
    \/ \E s \in Slots, d \in Slots : Copy(s, d)
    \/ \E a \in Slots, b \in Slots : Compare(a, b)
    \/ \E s \in Slots : HashPad(s)
    \/ \E b \in HashBytes : WriteU8(b)
    \/ \E name \in TypeNames : Measure(name)
    \/ \E f1 \in FieldValues, f2 \in FieldValues : ExampleNew(f1, f2)
    \/ \E ty \in ExternalTypes : ExternalImplSealed(ty)
    \/ \E ty \in ExternalTypes : ExternalImplPad(ty)

Spec == Init /\ [][Next]_vars
----------------------------------------------------------------------------
(* Properties. *)

\* The unsigned integer type a padding type is named after.
UnsignedOf(name) ==
    CASE name = "PadU8" -> "u8"
      [] name = "PadU16" -> "u16"
      [] name = "PadU32" -> "u32"
      [] name = "PadU64" -> "u64"
      [] name = "PadUsize" -> "usize"

NonZeroNames == TypeNames \ {"PadU0"}

\* The names that build on the target.
BuiltNames == {n \in TypeNames : Builds(n, target)}

Live == {s \in Slots : vals[s] # NoValue}

ZeroBytes(n) == [i \in 1..n |-> 0]

\* C1: every padding value that exists, whether it came from VALUE, default,
\* clone or copy, is the VALUE of its type, bit for bit, and the type has
\* no second value that an operation could produce.
C1_SingleValue ==
    /\ \A s \in Live :
         /\ vals[s].ty \in PadTypes
         /\ vals[s] = PadVALUE(vals[s].ty)
         /\ vals[s] = PadDefault(vals[s].ty)
         /\ vals[s] = PadClone(vals[s])
    /\ \A ty \in PadTypes : Inhabitants(ty) = {PadVALUE(ty)}

C1_Witness ==
    /\ last.op = "clone"
    /\ vals[1].ty = "PadU64"
    /\ vals[2].ty = "PadU64"

\* C2: size_of of each padding type is that of the unsigned integer of its
\* width (0 for PadU0, as for the unit type), and size_of::<PadUsize>() is
\* size_of::<usize>() on every supported pointer width.
C2_Size ==
    /\ SizeOf("PadU0", target) = 0
    /\ \A n \in BuiltNames \ {"PadU0"} :
         SizeOf(Resolve(n, target), target) = IntSize(UnsignedOf(n), target)
    /\ target.ptr \in PointerWidths => "PadUsize" \in BuiltNames
    /\ last.op = "layout" =>
         last.size = IF last.name = "PadU0" THEN 0
                     ELSE IntSize(UnsignedOf(last.name), target)

C2_Witness ==
    /\ last.op = "layout"
    /\ last.name = "PadUsize"
    /\ target.ptr = 32
    /\ last.size = 4

\* C3: align_of of each padding type is that of the unsigned integer of its
\* width on the target, align_of::<PadU0>() is that of the unit type, and
\* align_of::<PadUsize>() is align_of::<usize>().
C3_Align ==
    /\ AlignOf("PadU0", target) = 1
    /\ \A n \in BuiltNames \ {"PadU0"} :
         AlignOf(Resolve(n, target), target) = IntAlign(UnsignedOf(n), target)
    /\ last.op = "layout" =>
         last.align = IF last.name = "PadU0" THEN 1
                      ELSE IntAlign(UnsignedOf(last.name), target)

C3_Witness ==
    /\ last.op = "layout"
    /\ last.name = "PadU32"
    /\ target.maxAlign = 8
    /\ last.align = 4

\* C4: for every padding type of non-zero width, and for PadUsize, Option of
\* it has the size and the alignment of the unsigned integer of that width:
\* the type has one valid bit pattern, which leaves a pattern for None.
C4_OptionNiche ==
    /\ \A n \in BuiltNames \ {"PadU0"} :
         LET ty == Resolve(n, target)
         IN  /\ Cardinality(ValidPatterns(ty)) = 1
             /\ Niches(ty) # {}
             /\ OptionSize(ty, target) = IntSize(UnsignedOf(n), target)
             /\ OptionAlign(ty, target) = IntAlign(UnsignedOf(n), target)
    /\ (last.op = "layout" /\ last.name # "PadU0") =>
         /\ last.optSize = IntSize(UnsignedOf(last.name), target)
         /\ last.optAlign = IntAlign(UnsignedOf(last.name), target)
         /\ last.optSize = last.size

C4_Witness ==
    /\ last.op = "layout"
    /\ last.name = "PadU8"
    /\ last.optSize = 1

\* C5: for every padding type of non-zero width, and for PadUsize, the bytes
\* of VALUE read as the unsigned integer of that width are 0; so a region
\* of zero bytes of that size is a value of the type.
C5_ZeroBits ==
    /\ \A n \in BuiltNames \ {"PadU0"} :
         LET ty == Resolve(n, target)
             v == PadVALUE(ty)
         IN  /\ Len(v.bytes) = IntSize(UnsignedOf(n), target)
             /\ AsInt(v, IntBits(UnsignedOf(n), target)) = 0
             /\ v.bytes = ZeroBytes(SizeOf(ty, target))
             /\ [ty |-> ty, bytes |-> ZeroBytes(SizeOf(ty, target))] \in Inhabitants(ty)
    /\ \A s \in Live : vals[s].bytes = ZeroBytes(Len(vals[s].bytes))

C5_Witness ==
    /\ last.op = "VALUE"
    /\ target.ptr = 64
    /\ \E s \in Live : vals[s].ty = "PadU64" /\ vals[s].bytes = ZeroBytes(8)

Reverse(o) == CASE o = "Less" -> "Greater" [] o = "Greater" -> "Less" [] o = "Equal" -> "Equal"

\* C6: any two values a, b of one padding type satisfy a == b, not a != b,
\* a.cmp(b) = Equal and a.partial_cmp(b) = Some(Equal); eq is reflexive,
\* symmetric and transitive, the order is total, and eq, partial_cmp and
\* cmp agree.
C6_Compare ==
    /\ last.op = "compare" =>
         /\ last.eq = TRUE
         /\ last.ne = FALSE
         /\ last.cmp = "Equal"
         /\ last.pcmp = [some |-> TRUE, ord |-> "Equal"]
    /\ \A a \in Live, b \in Live :
         vals[a].ty = vals[b].ty =>
           LET x == vals[a]
               y == vals[b]
           IN  /\ PadEq(x, y)
               /\ ~PadNe(x, y)
               /\ PadEq(x, x)
               /\ PadEq(x, y) = PadEq(y, x)
               /\ PadCmp(x, y) = "Equal"
               /\ PadCmp(x, y) = Reverse(PadCmp(y, x))
               /\ PadEq(x, y) <=> (PadCmp(x, y) = "Equal")
               /\ PadPartialCmp(x, y) = [some |-> TRUE, ord |-> PadCmp(x, y)]
    /\ \A a \in Live, b \in Live, c \in Live :
         (vals[a].ty = vals[b].ty /\ vals[b].ty = vals[c].ty) =>
           ((PadEq(vals[a], vals[b]) /\ PadEq(vals[b], vals[c])) => PadEq(vals[a], vals[c]))

C6_Witness ==
    /\ last.op = "compare"
    /\ vals[1].ty = "PadU32"
    /\ vals[2].ty = "PadU32"

\* C7: hashing a padding value leaves the hasher as it was, whatever it
\* held; so two values of one type add the same (empty) contribution.
C7_HashNothing ==
    /\ last.op = "hash" => hasher = last.before
    /\ \A a \in Live : PadHash(vals[a], hasher) = hasher
    /\ \A a \in Live, b \in Live :
         (vals[a].ty = vals[b].ty /\ PadEq(vals[a], vals[b])) =>
           PadHash(vals[a], hasher) = PadHash(vals[b], hasher)

C7_Witness ==
    /\ last.op = "hash"
    /\ Len(hasher) >= 1
    /\ \E s \in Live : vals[s].ty = "PadU16"

\* The record C8 describes: u64, u8, a 1-byte padding, a pointer-width
\* padding and, on a 64-bit target only, a 4-byte padding.
ClaimedRecord(t) ==
    << [name |-> "field1", ty |-> "u64"],
       [name |-> "field2", ty |-> "u8"],
       [name |-> "pad1", ty |-> "PadU8"],
       [name |-> "pad2", ty |-> Resolve("PadUsize", t)] >>
    \o (IF t.ptr = 64 THEN << [name |-> "pad3", ty |-> "PadU32"] >> ELSE << >>)

\* A record has no gaps when its size is the sum of the sizes of its fields.
NoGaps(fields, t) ==
    /\ StructSize(fields, t) = DeclaredSum(fields, t)
    /\ DeclaredSum(fields, t) % StructAlign(fields, t) = 0

\* C8 as stated: on each supported pointer width, the record with a
\* pointer-width padding field has no gaps.
C8_Original ==
    (last.op = "example_new" /\ target.ptr \in PointerWidths) =>
        NoGaps(ClaimedRecord(target), target)

\* C8, amended: the record of the example holds a 2-byte padding (none on a
\* 16-bit target) where the claim has a pointer-width one; its fields sum to
\* 16, 12 and 10 bytes on 64-, 32- and 16-bit targets, and it has no gaps
\* except on a 32-bit target that aligns u64 to 8 bytes, where it is 16 bytes.
C8_ExampleLayout ==
    (last.op = "example_new" /\ target.ptr \in PointerWidths) =>
        LET f == ExampleFields(target)
        IN  /\ f[4].ty = (IF target.ptr = 16 THEN "PadU0" ELSE "PadU16")
            /\ f[5].ty = (IF target.ptr = 64 THEN "PadU32" ELSE "PadU0")
            /\ DeclaredSum(f, target) =
                 (CASE target.ptr = 64 -> 16 [] target.ptr = 32 -> 12 [] target.ptr = 16 -> 10)
            /\ IF target.ptr = 32 /\ IntAlign("u64", target) = 8
               THEN StructSize(f, target) = 16 /\ ~NoGaps(f, target)
               ELSE NoGaps(f, target)
            /\ last.example.pad1 = PadVALUE("PadU8")
            /\ last.example.pad2 = PadVALUE(f[4].ty)
            /\ last.example.pad3 = PadVALUE(f[5].ty)

C8_Witness ==
    /\ last.op = "example_new"
    /\ target.ptr = 64
    /\ last.example.field1 = 1
    /\ StructSize(ExampleFields(target), target) = 16

\* C9: PadUsize is PadU64, PadU32 or PadU16 on a 64-, 32- or 16-bit target,
\* exactly one definition of it is active there, and on any other pointer
\* width there is none, so that nothing naming it builds.
C9_Alias ==
    /\ target.ptr \in PointerWidths =>
         /\ Cardinality(ActiveAliases(target)) = 1
         /\ Builds("PadUsize", target)
         /\ Resolve("PadUsize", target) =
              (CASE target.ptr = 64 -> "PadU64"
                 [] target.ptr = 32 -> "PadU32"
                 [] target.ptr = 16 -> "PadU16")
    /\ target.ptr \notin PointerWidths =>
         /\ ActiveAliases(target) = {}
         /\ ~Builds("PadUsize", target)
         /\ ~(last.op = "layout" /\ last.name = "PadUsize")
    /\ (last.op = "layout" /\ last.name = "PadUsize") =>
         /\ last.ty = Resolve("PadUsize", target)
         /\ last.size * 8 = target.ptr

C9_Witness ==
    /\ last.op = "layout"
    /\ last.name = "PadUsize"
    /\ last.ty = "PadU16"
    /\ target.ptr = 16

\* C10: the implementers of Pad are exactly PadU0, PadU8, PadU16, PadU32 and
\* PadU64, whatever a downstream crate tries: Pad requires Sealed, Sealed
\* is implemented for exactly these five in a module that cannot be named
\* from outside, and every implementer of Sealed implements Pad.
C10_Sealed ==
    /\ padImpls = {"PadU0", "PadU8", "PadU16", "PadU32", "PadU64"}
    /\ sealedImpls = {"PadU0", "PadU8", "PadU16", "PadU32", "PadU64"}
    /\ "Sealed" \in PadSupertraits
    /\ ~PrivateModuleIsPub
    /\ sealedImpls \subseteq padImpls
    /\ last.op \in {"extern_impl_sealed", "extern_impl_pad"} => ~last.built

C10_Witness ==
    /\ last.op = "extern_impl_pad"
    /\ last.ty \in ExternalTypes
    /\ ~last.built

====
